---------------------------- MODULE Spec2Model ----------------------------
(***************************************************************************)
(* Cubic Hermite spline of compmath (interpolation/splain.py): the object  *)
(* built by hspline(xp, yp, bc_type, dy_nodes, ddy_nodes) and its queries  *)
(* interpolate, derivative and integrate.                                  *)
(*                                                                         *)
(* Numbers are exact rationals <<num, den>> (den > 0, lowest terms): the   *)
(* Decimal arithmetic of the source (precision 20) and the float32 linear  *)
(* solve are modelled without rounding.  Python sequences are 0-based;     *)
(* Get(s, i) reads s[i] with Python's index rules (negative i counts from  *)
(* the end).                                                               *)
(***************************************************************************)
EXTENDS Integers, Sequences, FiniteSets, TLC

VARIABLES xp, yp, n, bc_type, dy_nodes, ddy_nodes, m, coeffs, status,
          op, args, result, prec

vars == <<xp, yp, n, bc_type, dy_nodes, ddy_nodes, m, coeffs, status,
          op, args, result, prec>>

spline == <<xp, yp, n, bc_type, dy_nodes, ddy_nodes, m, coeffs>>

\* getcontext().prec = 20, run when the package is imported
DefaultPrec == 20

\* Python's None (an attribute that holds no sequence)
None == <<>>

-----------------------------------------------------------------------------
(* Exact arithmetic standing for decimal.Decimal                           *)

Abs(a) == IF a < 0 THEN -a ELSE a

RECURSIVE GCD(_, _)
GCD(a, b) == IF b = 0 THEN a ELSE GCD(b, a % b)

Norm(p, q) ==
    LET s == IF q < 0 THEN -1 ELSE 1
        g == GCD(Abs(p), Abs(q))
    IN  IF p = 0 THEN <<0, 1>> ELSE <<(s * p) \div g, (s * q) \div g>>

R(k) == <<k, 1>>
Zero == <<0, 1>>

\* (denominators are reduced by their common factor before multiplying)
Add(a, b) == LET g == GCD(a[2], b[2])
             IN  Norm(a[1] * (b[2] \div g) + b[1] * (a[2] \div g),
                      (a[2] \div g) * b[2])
Neg(a)    == <<-a[1], a[2]>>
Sub(a, b) == Add(a, Neg(b))
Mul(a, b) == LET g1 == GCD(Abs(a[1]), b[2])
                 g2 == GCD(Abs(b[1]), a[2])
             IN  IF a[1] = 0 \/ b[1] = 0 THEN <<0, 1>>
                 ELSE <<(a[1] \div g1) * (b[1] \div g2),
                        (a[2] \div g2) * (b[2] \div g1)>>
Inv(a)    == IF a[1] < 0 THEN <<-a[2], -a[1]>> ELSE <<a[2], a[1]>>
Div(a, b) == Mul(a, Inv(b))
Lt(a, b)  == LET g == GCD(a[2], b[2])
             IN  a[1] * (b[2] \div g) < b[1] * (a[2] \div g)
Le(a, b)  == ~Lt(b, a)
Max(a, b) == IF Lt(a, b) THEN b ELSE a
Min(a, b) == IF Lt(b, a) THEN b ELSE a
Sq(a)     == Mul(a, a)
Cube(a)   == Mul(a, Mul(a, a))

\* decimal's signal for x / 0: 0 / 0 is InvalidOperation, else DivisionByZero
DivErr(a, b) == IF b # Zero THEN "ok"
                ELSE IF a = Zero THEN "InvalidOperation" ELSE "DivisionByZero"

-----------------------------------------------------------------------------
(* Python indexing                                                         *)

InRange(s, i) == IF i >= 0 THEN i < Len(s) ELSE -i <= Len(s)
Get(s, i)     == IF i >= 0 THEN s[i + 1] ELSE s[Len(s) + i + 1]
IdxErr(s, i)  == IF InRange(s, i) THEN "ok" ELSE "IndexError"

\* a sequence given as a function on 1..k, with its elements computed
Force(s) == s \o <<>>

\* utils.to_decimal on a list: every element becomes a Decimal
to_decimal(s) == Force([i \in 1..Len(s) |-> R(s[i])])

\* np.diff
diff(x) == Force([i \in 1..(Len(x) - 1) |-> Sub(x[i + 1], x[i])])


-----------------------------------------------------------------------------
(* np.linalg.solve: Gaussian elimination with partial pivoting             *)

AbsR(a) == IF a[1] < 0 THEN Neg(a) ELSE a

\* the pivot row of column k: largest magnitude, lowest index among equals
\* (rows and columns are counted from 0, as in the source)
Cell(M, r, c) == Get(Get(M, r), c)

Pivot(M, k, nn) ==
    CHOOSE r \in k..(nn - 1) :
        \A q \in k..(nn - 1) :
            /\ Le(AbsR(Cell(M, q, k)), AbsR(Cell(M, r, k)))
            /\ AbsR(Cell(M, q, k)) = AbsR(Cell(M, r, k)) => r <= q

\* one elimination step on the augmented matrix M (columns 0..nn), column k
ElimStep(M, k, nn) ==
    LET p  == Pivot(M, k, nn)
        Sw == Force([r \in 1..nn |->
                 IF r - 1 = k THEN Get(M, p)
                 ELSE IF r - 1 = p THEN Get(M, k) ELSE M[r]])
        pr == Force([c \in 1..(nn + 1) |-> Div(Sw[k + 1][c], Sw[k + 1][k + 1])])
    IN  Force([r \in 1..nn |->
           IF r - 1 = k THEN pr
           ELSE IF Sw[r][k + 1] = Zero THEN Sw[r]
           ELSE Force([c \in 1..(nn + 1) |->
                         Sub(Sw[r][c], Mul(Sw[r][k + 1], pr[c]))])])

RECURSIVE Elim(_, _, _)
Elim(M, k, nn) ==
    IF k = nn THEN [ok |-> TRUE, M |-> M]
    ELSE IF \A r \in k..(nn - 1) : Cell(M, r, k) = Zero
         THEN [ok |-> FALSE, M |-> M]
         ELSE Elim(ElimStep(M, k, nn), k + 1, nn)

\* (solve without the singularity test: the last column of whatever the
\* elimination left)
solve_Unchecked(A, rhs, nn) ==
    LET Aug == Force([r \in 1..nn |-> Append(A[r], rhs[r])])
        E   == Elim(Aug, 0, nn)
    IN  [ok |-> TRUE, x |-> Force([i \in 1..nn |-> E.M[i][nn + 1]])]

\* solve(A, rhs): the solution as a sequence, or LinAlgError when A is singular
solve(A, rhs, nn) ==
    LET Aug == Force([r \in 1..nn |-> Append(A[r], rhs[r])])
        E   == Elim(Aug, 0, nn)
    IN  IF E.ok THEN [ok |-> TRUE, x |-> Force([i \in 1..nn |-> E.M[i][nn + 1]])]
        ELSE [ok |-> FALSE, x |-> <<>>]

-----------------------------------------------------------------------------
(* __HermiteSpline._build_spline                                           *)

\* e1, and when it is "ok" the outcome of the statements that follow it
Then(e1, e2) == IF e1 # "ok" THEN e1 ELSE e2

Ix(i, nn) == IF i < 0 THEN nn + i ELSE i
CellErr(r, c, nn) ==
    IF Ix(r, nn) \in 0..(nn - 1) /\ Ix(c, nn) \in 0..(nn - 1)
    THEN "ok" ELSE "IndexError"

\* A[r, c] = v for each <<r, c, v>> of cs, in order
RECURSIVE SetCells(_, _, _)
SetCells(A, cs, nn) ==
    IF cs = <<>> THEN A
    ELSE SetCells([A EXCEPT ![Ix(cs[1][1], nn) + 1][Ix(cs[1][2], nn) + 1] = cs[1][3]],
                  Tail(cs), nn)

\* rhs[r] = v for each <<r, v>> of rs, in order
RECURSIVE SetRhs(_, _, _)
SetRhs(rhs, rs, nn) ==
    IF rs = <<>> THEN rhs
    ELSE SetRhs([rhs EXCEPT ![Ix(rs[1][1], nn) + 1] = rs[1][2]], Tail(rs), nn)

\* the loop body of an interior row i (1 <= i <= n-2): what it raises
InteriorErr(y, h, i) ==
    LET hs == Add(Get(h, i - 1), Get(h, i))
    IN  Then(DivErr(Get(h, i), hs),
        Then(IdxErr(y, i + 1),
        Then(DivErr(Sub(Get(y, i + 1), Get(y, i)), Get(h, i)),
             DivErr(Sub(Get(y, i), Get(y, i - 1)), Get(h, i - 1)))))

RECURSIVE InteriorErrs(_, _, _, _)
InteriorErrs(y, h, i, nn) ==
    IF i > nn - 2 THEN "ok"
    ELSE Then(InteriorErr(y, h, i), InteriorErrs(y, h, i + 1, nn))

\* (InteriorRhs with the two widths that weight the slopes exchanged)
InteriorRhs_Exchanged(y, h, i) ==
    Div(Mul(R(3),
            Add(Mul(Div(Sub(Get(y, i + 1), Get(y, i)), Get(h, i)), Get(h, i)),
                Mul(Div(Sub(Get(y, i), Get(y, i - 1)), Get(h, i - 1)), Get(h, i - 1)))),
        Add(Get(h, i - 1), Get(h, i)))

InteriorRhs(y, h, i) ==
    Div(Mul(R(3),
            Add(Mul(Div(Sub(Get(y, i + 1), Get(y, i)), Get(h, i)), Get(h, i - 1)),
                Mul(Div(Sub(Get(y, i), Get(y, i - 1)), Get(h, i - 1)), Get(h, i)))),
        Add(Get(h, i - 1), Get(h, i)))

\* A and rhs after the loop over the interior rows (np.zeros elsewhere);
\* row r and column c are counted from 0
InteriorCell(h, r, c, nn) ==
    IF r < 1 \/ r > nn - 2 THEN Zero
    ELSE IF c = r - 1 THEN Div(Get(h, r), Add(Get(h, r - 1), Get(h, r)))
    ELSE IF c = r     THEN R(2)
    ELSE IF c = r + 1 THEN Div(Get(h, r - 1), Add(Get(h, r - 1), Get(h, r)))
    ELSE Zero

InteriorA(h, nn) ==
    Force([r \in 1..nn |->
             Force([c \in 1..nn |-> InteriorCell(h, r - 1, c - 1, nn)])])

InteriorB(y, h, nn) ==
    Force([r \in 1..nn |->
             IF r - 1 < 1 \/ r - 1 > nn - 2 THEN Zero
             ELSE InteriorRhs(y, h, r - 1)])

\* the boundary rows of each variant: what the branch raises, the cells of A
\* and the entries of rhs it assigns
\* (ClampedErr without the test of lines 55-58: None is subscripted)
ClampedErr_Unchecked(dy, nn) ==
    IF dy = None THEN "TypeError" ELSE CellErr(0, 0, nn)

ClampedErr(dy, nn) ==
    IF dy = None THEN "ValueError" ELSE CellErr(0, 0, nn)
ClampedCells == << <<0, 0, R(1)>>, <<-1, -1, R(1)>> >>
ClampedRhs(dy) == << <<0, Get(dy, 0)>>, <<-1, Get(dy, -1)>> >>

SecondRhs0(y, h, ddy) ==
    Sub(Div(Div(Mul(R(6), Sub(Get(y, 1), Get(y, 0))), Get(h, 0)), Get(h, 0)),
        Mul(Get(h, 0), Get(ddy, 0)))
SecondRhsN(y, h, ddy) ==
    Sub(Div(Div(Mul(R(6), Sub(Get(y, -1), Get(y, -2))), Get(h, -1)), Get(h, -1)),
        Mul(Get(h, -1), Get(ddy, 1)))
SecondErr(y, h, ddy, nn) ==
    IF ddy = None THEN "ValueError"
    ELSE Then(CellErr(0, 0, nn),
         Then(CellErr(0, 1, nn),
         Then(IdxErr(y, 1),
         Then(DivErr(Mul(R(6), Sub(Get(y, 1), Get(y, 0))), Get(h, 0)),
              DivErr(Mul(R(6), Sub(Get(y, -1), Get(y, -2))), Get(h, -1))))))
SecondCells == << <<0, 0, R(2)>>, <<0, 1, R(1)>>, <<-1, -2, R(1)>>, <<-1, -1, R(2)>> >>
SecondRhs(y, h, ddy) ==
    << <<0, SecondRhs0(y, h, ddy)>>, <<-1, SecondRhsN(y, h, ddy)>> >>

PeriodicErr(nn) == CellErr(0, 0, nn)
\* (PeriodicCells whose last row ties only the last tangent)
PeriodicCells_OneSided == << <<0, 0, R(1)>>, <<0, -1, R(-1)>>, <<-1, -1, R(1)>> >>

PeriodicCells == << <<0, 0, R(1)>>, <<0, -1, R(-1)>>, <<-1, 0, R(1)>>, <<-1, -1, R(-1)>> >>
PeriodicRhs == << <<0, Zero>>, <<-1, Zero>> >>

\* (NotAKnotErr with a test of its own in place of the subscript's error)
NotAKnotErr_Tested(h) == IF InRange(h, 1) THEN "ok" ELSE "ValueError"

NotAKnotErr(h) == IdxErr(h, 1)
\* (NotAKnotCells whose last row takes the widths in the opposite order)
NotAKnotCells_Reversed(h) ==
    << <<0, 0, Get(h, 1)>>, <<0, 1, Neg(Add(Get(h, 0), Get(h, 1)))>>, <<0, 2, Get(h, 0)>>,
       <<-1, -3, Get(h, -2)>>, <<-1, -2, Neg(Add(Get(h, -2), Get(h, -1)))>>,
       <<-1, -1, Get(h, -1)>> >>

NotAKnotCells(h) ==
    << <<0, 0, Get(h, 1)>>, <<0, 1, Neg(Add(Get(h, 0), Get(h, 1)))>>, <<0, 2, Get(h, 0)>>,
       <<-1, -3, Get(h, -1)>>, <<-1, -2, Neg(Add(Get(h, -2), Get(h, -1)))>>,
       <<-1, -1, Get(h, -2)>> >>
NotAKnotRhs == << <<0, Zero>>, <<-1, Zero>> >>

BoundaryErr(bc, y, h, dy, ddy, nn) ==
    IF bc = "clamped" THEN ClampedErr(dy, nn)
    ELSE IF bc = "second" THEN SecondErr(y, h, ddy, nn)
    ELSE IF bc = "periodic" THEN PeriodicErr(nn)
    ELSE NotAKnotErr(h)

\* (BoundaryCells with a branch of its own for the tag 'natural')
BoundaryCells_Natural(bc, h) ==
    IF bc = "clamped" THEN ClampedCells
    ELSE IF bc = "second" \/ bc = "natural" THEN SecondCells
    ELSE IF bc = "periodic" THEN PeriodicCells
    ELSE NotAKnotCells(h)

BoundaryCells(bc, h) ==
    IF bc = "clamped" THEN ClampedCells
    ELSE IF bc = "second" THEN SecondCells
    ELSE IF bc = "periodic" THEN PeriodicCells
    ELSE NotAKnotCells(h)

BoundaryRhs(bc, y, h, dy, ddy) ==
    IF bc = "clamped" THEN ClampedRhs(dy)
    ELSE IF bc = "second" THEN SecondRhs(y, h, ddy)
    ELSE IF bc = "periodic" THEN PeriodicRhs
    ELSE NotAKnotRhs

\* the assembled system A . m = rhs
SystemA(bc, h, nn) == SetCells(InteriorA(h, nn), BoundaryCells(bc, h), nn)
SystemRhs(bc, y, h, dy, ddy, nn) ==
    SetRhs(InteriorB(y, h, nn), BoundaryRhs(bc, y, h, dy, ddy), nn)

\* (CoefC with the weights of m_i and m_{i+1} exchanged)
CoefC_Exchanged(y, h, mm, i) ==
    Sub(Div(Mul(R(3), Sub(Get(y, i + 1), Get(y, i))), Sq(Get(h, i))),
        Div(Add(Get(mm, i), Mul(R(2), Get(mm, i + 1))), Get(h, i)))

\* the coefficients (a_i, b_i, c_i, d_i, x_i) of segment i
CoefC(y, h, mm, i) ==
    Sub(Div(Mul(R(3), Sub(Get(y, i + 1), Get(y, i))), Sq(Get(h, i))),
        Div(Add(Mul(R(2), Get(mm, i)), Get(mm, i + 1)), Get(h, i)))
CoefD(y, h, mm, i) ==
    Add(Div(Mul(R(2), Sub(Get(y, i), Get(y, i + 1))), Cube(Get(h, i))),
        Div(Add(Get(mm, i), Get(mm, i + 1)), Sq(Get(h, i))))
Coef(x, y, h, mm, i) ==
    <<Get(y, i), Get(mm, i), CoefC(y, h, mm, i), CoefD(y, h, mm, i), Get(x, i)>>

CoefErr(y, h, i) ==
    Then(IdxErr(y, i),
    Then(IdxErr(y, i + 1),
         DivErr(Mul(R(3), Sub(Get(y, i + 1), Get(y, i))), Sq(Get(h, i)))))

RECURSIVE CoefErrs(_, _, _, _)
CoefErrs(y, h, i, nn) ==
    IF i > nn - 2 THEN "ok"
    ELSE Then(CoefErr(y, h, i), CoefErrs(y, h, i + 1, nn))

Failed(e) == [status |-> e, m |-> None, coeffs |-> None]

build_spline(x, y, bc, dy, ddy) ==
    LET nn == Len(x)
        h  == diff(x)
        e1 == Then(InteriorErrs(y, h, 1, nn), BoundaryErr(bc, y, h, dy, ddy, nn))
        s  == solve(SystemA(bc, h, nn), SystemRhs(bc, y, h, dy, ddy, nn), nn)
        e2 == CoefErrs(y, h, 0, nn)
    IN  IF e1 # "ok" THEN Failed(e1)
        ELSE IF ~s.ok THEN Failed("LinAlgError")
        ELSE IF e2 # "ok" THEN Failed(e2)
        ELSE [status |-> "built", m |-> s.x,
              coeffs |-> Force([i \in 1..(nn - 1) |-> Coef(x, y, h, s.x, i - 1)])]

-----------------------------------------------------------------------------
(* Queries on a built spline                                               *)

\* np.searchsorted(a, v), side 'left': the binary search numpy runs, whether
\* or not a is sorted
RECURSIVE BinSearch(_, _, _, _)
BinSearch(a, v, lo, hi) ==
    IF lo >= hi THEN lo
    ELSE LET mid == lo + ((hi - lo) \div 2)
         IN  IF Lt(Get(a, mid), v) THEN BinSearch(a, v, mid + 1, hi)
             ELSE BinSearch(a, v, lo, mid)

searchsorted(a, v) == BinSearch(a, v, 0, Len(a))

\* np.clip(v, lo, hi) = minimum(maximum(v, lo), hi)
MaxI(a, b) == IF a < b THEN b ELSE a
MinI(a, b) == IF b < a THEN b ELSE a
clip(v, lo, hi) == MinI(MaxI(v, lo), hi)

\* the segment index that interpolate and integrate use for x
SegIndex(x, v, nn) == clip(searchsorted(x, v) - 1, 0, nn - 2)

Value(v)  == [err |-> "ok", val |-> v]
Raised(e) == [err |-> e, val |-> Zero]

\* S_i(x) = a_i + b_i*dx + c_i*dx^2 + d_i*dx^3 with dx = x - x_i
Poly(cf, v) ==
    LET dx == Sub(v, cf[5])
    IN  Add(Add(cf[1], Mul(cf[2], dx)),
            Add(Mul(cf[3], Sq(dx)), Mul(cf[4], Cube(dx))))

interpolate_at(x, cfs, nn, v) ==
    LET i == SegIndex(x, v, nn)
    IN  IF ~InRange(cfs, i) THEN Raised("IndexError")
        ELSE Value(Poly(Get(cfs, i), v))

\* the order-th derivative of the cubic of one segment at v, as sympy
\* differentiates the polynomial piece
DPoly(cf, v, order) ==
    LET dx == Sub(v, cf[5])
    IN  IF order = 0 THEN Poly(cf, v)
        ELSE IF order = 1
             THEN Add(cf[2], Add(Mul(Mul(R(2), cf[3]), dx),
                                 Mul(Mul(R(3), cf[4]), Sq(dx))))
        ELSE IF order = 2
             THEN Add(Mul(R(2), cf[3]), Mul(Mul(R(6), cf[4]), dx))
        ELSE IF order = 3 THEN Mul(R(6), cf[4])
        ELSE Zero

\* Piecewise((poly, (x >= xi) & (x <= x_next)), (0, True)) differentiated and
\* evaluated at v
Piece(x, cfs, i, v, order) ==
    IF Le(Get(x, i), v) /\ Le(v, Get(x, i + 1))
    THEN DPoly(Get(cfs, i), v, order) ELSE Zero

\* the sum of the pieces of segments i..n-2
RECURSIVE SumPieces(_, _, _, _, _, _)
SumPieces(x, cfs, i, nn, v, order) ==
    IF i > nn - 2 THEN Zero
    ELSE Add(Piece(x, cfs, i, v, order), SumPieces(x, cfs, i + 1, nn, v, order))

derivative_at(x, cfs, nn, v, order) ==
    IF order < 0 THEN Raised("ValueError")
    ELSE Value(SumPieces(x, cfs, 0, nn, v, order))

\* polyint(dx) = a*dx + b*dx^2/2 + c*dx^3/3 + d*dx^4/4
polyint(cf, dx) ==
    Add(Add(Mul(cf[1], dx), Div(Mul(cf[2], Sq(dx)), R(2))),
        Add(Div(Mul(cf[3], Cube(dx)), R(3)), Div(Mul(cf[4], Sq(Sq(dx))), R(4))))

\* the loop of integrate over segments i..right: the total added, x_left
\* being the upper end of the previous segment's part
RECURSIVE IntLoop(_, _, _, _, _, _)
IntLoop(x, cfs, i, right, x_left, b) ==
    IF i > right THEN Zero
    ELSE LET cf == Get(cfs, i)
             x0 == Max(cf[5], x_left)
             x1 == Min(Get(x, i + 1), b)
         IN  Add(Sub(polyint(cf, Sub(x1, cf[5])), polyint(cf, Sub(x0, cf[5]))),
                 IntLoop(x, cfs, i + 1, right, x1, b))

\* (Bounds without the exchange)
Bounds_AsGiven(a, b) == <<a, b>>

\* if a > b: a, b = b, a
Bounds(a, b) == IF Lt(b, a) THEN <<b, a>> ELSE <<a, b>>

integrate_ab(x, cfs, nn, a0, b0) ==
    LET a == Bounds(a0, b0)[1]
        b == Bounds(a0, b0)[2]
        left  == SegIndex(x, a, nn)
        right == SegIndex(x, b, nn)
    IN  IF left <= right /\ ~InRange(cfs, left) THEN Raised("IndexError")
        ELSE Value(IntLoop(x, cfs, left, right, a, b))

-----------------------------------------------------------------------------
(* Inputs                                                                  *)

\* the largest number of nodes
MaxN == 4

\* a node sequence starts at 0 and moves by one of these steps: ascending
\* with equal or unequal widths, repeated (0) and descending (-1) nodes
Steps == {-1, 0, 1, 2}

RECURSIVE Walks(_)
Walks(k) ==
    IF k = 0 THEN {<<>>}
    ELSE IF k = 1 THEN {<<0>>}
    ELSE {Append(w, w[Len(w)] + s) : w \in Walks(k - 1), s \in Steps}

XInputs == UNION {Walks(k) : k \in 0..MaxN}

\* the node sequences by kind: n >= 2 and strictly increasing; n >= 2 and
\* not strictly increasing; fewer than two nodes
Ascending == {xs \in XInputs :
                Len(xs) >= 2 /\ \A i \in 1..(Len(xs) - 1) : xs[i] < xs[i + 1]}
Unordered == {xs \in XInputs : Len(xs) >= 2} \ Ascending
Short     == {xs \in XInputs : Len(xs) < 2}

\* ordinates: the zero sequence and the unit sequences of the length of xp
\* (the spline is linear in yp); with other nodes only the zero and the
\* first unit sequence; and one sequence shorter and one longer than xp
Unit(k, len) == Force([i \in 1..len |-> IF i = k THEN 1 ELSE 0])
YInputs(xs) ==
    LET nn == Len(xs)
    IN  {Unit(k, nn) : k \in IF xs \in Ascending THEN 0..nn ELSE {0, 1}}
          \cup {Unit(1, nn + 1)}
          \cup (IF nn > 0 THEN {Unit(1, nn - 1)} ELSE {})

BCTags == {"not-a-knot", "clamped", "second", "periodic", "natural"}
Pairs  == {<<1, 2>>}

\* dy_nodes is tried with 'clamped' and ddy_nodes with 'second'
DyInputs(bc)  == IF bc = "clamped" THEN {None} \cup Pairs ELSE {None}
DdyInputs(bc) == IF bc = "second" THEN {None} \cup Pairs ELSE {None}

\* query abscissas of a built spline: its nodes, the midpoints of its
\* segments, and one point on either side of all nodes
RECURSIVE MinOf(_)
MinOf(x) == IF Len(x) = 1 THEN x[1] ELSE Min(x[1], MinOf(Tail(x)))
RECURSIVE MaxOf(_)
MaxOf(x) == IF Len(x) = 1 THEN x[1] ELSE Max(x[1], MaxOf(Tail(x)))

Outside(x) == {Sub(MinOf(x), R(1)), Add(MaxOf(x), R(1))}
Mid(x, i)  == Div(Add(x[i], x[i + 1]), R(2))

QPoints(x) ==
    {x[i] : i \in 1..Len(x)} \cup {Mid(x, i) : i \in 1..(Len(x) - 1)}
      \cup Outside(x)

\* integration bounds: the nodes, the midpoint of the first segment, and the
\* two outside points
IPoints(x) ==
    {x[i] : i \in 1..Len(x)} \cup {Mid(x, i) : i \in 1..MinI(1, Len(x) - 1)}
      \cup Outside(x)

\* derivative orders tried: the valid 1, 2, 3 and their neighbours
MaxOrder == 4
Orders == -1..MaxOrder

-----------------------------------------------------------------------------
(* The state machine                                                       *)

Init ==
    /\ xp = None /\ yp = None /\ n = 0 /\ bc_type = "" /\ dy_nodes = None
    /\ ddy_nodes = None /\ m = None /\ coeffs = None
    /\ status = "none"
    /\ op = "idle" /\ args = <<>> /\ result = Raised("none")
    /\ prec = DefaultPrec

\* __HermiteSpline.__init__ followed by _build_spline
hspline(xs, ys, bc, dy, ddy) ==
    /\ status = "none"
    /\ LET x == to_decimal(xs)
           y == to_decimal(ys)
           d1 == IF dy # None THEN to_decimal(dy) ELSE None
           d2 == IF ddy # None THEN to_decimal(ddy) ELSE None
           b == build_spline(x, y, bc, d1, d2)
       IN  /\ xp' = x /\ yp' = y /\ n' = Len(x) /\ bc_type' = bc
           /\ dy_nodes' = d1 /\ ddy_nodes' = d2
           /\ status' = b.status /\ m' = b.m /\ coeffs' = b.coeffs
    /\ UNCHANGED <<op, args, result, prec>>

interpolate(v) ==
    /\ status = "built" /\ op = "idle"
    /\ op' = "interpolate" /\ args' = <<v>>
    /\ result' = interpolate_at(xp, coeffs, n, v)
    /\ UNCHANGED <<spline, status, prec>>

derivative(v, order) ==
    /\ status = "built" /\ op = "idle"
    /\ op' = "derivative" /\ args' = <<v, order>>
    /\ result' = derivative_at(xp, coeffs, n, v, order)
    /\ UNCHANGED <<spline, status, prec>>

\* (integrate keeping its bounds on the object, in place of the tangents)
integrate_Storing(a, b) ==
    /\ status = "built" /\ op = "idle"
    /\ op' = "integrate" /\ args' = <<a, b>>
    /\ result' = integrate_ab(xp, coeffs, n, a, b)
    /\ m' = <<a, b>>
    /\ UNCHANGED <<xp, yp, n, bc_type, dy_nodes, ddy_nodes, coeffs, status, prec>>

integrate(a, b) ==
    /\ status = "built" /\ op = "idle"
    /\ op' = "integrate" /\ args' = <<a, b>>
    /\ result' = integrate_ab(xp, coeffs, n, a, b)
    /\ UNCHANGED <<spline, status, prec>>

\* the caller takes the value (or the exception) of the query
Return ==
    /\ op # "idle"
    /\ op' = "idle" /\ args' = <<>> /\ result' = Raised("none")
    /\ UNCHANGED <<spline, status, prec>>

ConstructFrom(X) ==
    /\ status = "none"
    /\ \E xs \in X : \E ys \in YInputs(xs) : \E bc \in BCTags :
       \E dy \in DyInputs(bc) : \E ddy \in DdyInputs(bc) :
          hspline(xs, ys, bc, dy, ddy)

Construct ==
    ConstructFrom(Ascending) \/ ConstructFrom(Unordered) \/ ConstructFrom(Short)

Interpolate ==
    /\ status = "built" /\ op = "idle"
    /\ \E v \in QPoints(xp) : interpolate(v)
Derivative ==
    /\ status = "built" /\ op = "idle"
    /\ \E v \in QPoints(xp) : \E order \in Orders : derivative(v, order)
Integrate ==
    /\ status = "built" /\ op = "idle"
    /\ \E a \in IPoints(xp) : \E b \in IPoints(xp) : integrate(a, b)

Next == Construct \/ Interpolate \/ Derivative \/ Integrate \/ Return

Spec == Init /\ [][Next]_vars

-----------------------------------------------------------------------------
(* Properties                                                              *)

Built == status = "built"

\* segment i (counted from 0) of the built spline
Seg(i) == Get(coeffs, i)
Width(i) == Sub(Get(xp, i + 1), Get(xp, i))

\* the nodes are strictly increasing, at least two, and yp matches xp
RECURSIVE Increasing(_)
Increasing(x) ==
    Len(x) < 2 \/ (Lt(x[1], x[2]) /\ Increasing(Tail(x)))
ValidNodes == n >= 2 /\ Len(yp) = n /\ Increasing(xp)

\* C1: every built spline interpolates its nodes: interpolate(x_k) = y_k for
\* every node index k, whatever the boundary condition.
C1_NodeInterpolation ==
    (Built /\ op = "interpolate") =>
        \A k \in 0..(n - 1) :
            args[1] = Get(xp, k) =>
                InRange(yp, k) /\ result = Value(Get(yp, k))

\* C1 on valid node sets (strictly increasing, n >= 2, len(yp) = n): at a
\* node the result of interpolate is the ordinate.
C1_NodeInterpolationValid ==
    (Built /\ ValidNodes /\ op = "interpolate") =>
        \A k \in 0..(n - 1) :
            args[1] = Get(xp, k) =>
                InRange(yp, k) /\ result = Value(Get(yp, k))

\* C2: a clamped spline has the given end slopes: derivative(x_0, 1) is
\* dy_left and derivative(x_{n-1}, 1) is dy_right.
C2_ClampedEnds ==
    (Built /\ bc_type = "clamped" /\ op = "derivative" /\ args[2] = 1) =>
        /\ args[1] = Get(xp, 0) => result = Value(Get(dy_nodes, 0))
        /\ args[1] = Get(xp, n - 1) => result = Value(Get(dy_nodes, 1))

\* C2 on valid node sets.
C2_ClampedEndsValid ==
    (Built /\ ValidNodes /\ bc_type = "clamped" /\ op = "derivative"
       /\ args[2] = 1) =>
        /\ args[1] = Get(xp, 0) => result = Value(Get(dy_nodes, 0))
        /\ args[1] = Get(xp, n - 1) => result = Value(Get(dy_nodes, 1))

\* C3: a 'second' spline has the given end second derivatives: 2*c_0 is
\* s_left and 2*c_{n-2} + 6*d_{n-2}*h_{n-2} is s_right.
C3_SecondEnds ==
    (Built /\ bc_type = "second") =>
        /\ Mul(R(2), Seg(0)[3]) = Get(ddy_nodes, 0)
        /\ Add(Mul(R(2), Seg(n - 2)[3]),
               Mul(Mul(R(6), Seg(n - 2)[4]), Width(n - 2))) = Get(ddy_nodes, 1)

\* C4: a not-a-knot spline (n >= 4) has a continuous third derivative across
\* x_1 and x_{n-2}: d_0 = d_1 and d_{n-3} = d_{n-2}.
C4_NotAKnotThirdDerivative ==
    (Built /\ bc_type = "not-a-knot" /\ n >= 4) =>
        /\ Seg(0)[4] = Seg(1)[4]
        /\ Seg(n - 3)[4] = Seg(n - 2)[4]

\* C5: at every interior node x_k the first derivative of segment k-1 at its
\* right end equals that of segment k at its left end, both being m_k.
C5_FirstDerivativeContinuity ==
    Built =>
        \A k \in 1..(n - 2) :
            /\ DPoly(Seg(k - 1), Get(xp, k), 1) = Seg(k)[2]
            /\ Seg(k)[2] = Get(m, k)

C5_Witness ==
    /\ Built /\ n >= 4 /\ bc_type = "clamped"
    /\ Get(m, 1) # Zero /\ Get(m, 2) # Zero /\ Width(0) # Width(1)

\* C6: derivative(x, order), order in 1..3 and x in [x_0, x_{n-1}], is the
\* closed-form derivative of one segment polynomial that contains x.
InSegment(i, v) == Le(Get(xp, i), v) /\ Le(v, Get(xp, i + 1))

C6_DerivativeOfOneSegment ==
    (Built /\ op = "derivative" /\ args[2] \in 1..3
       /\ Le(Get(xp, 0), args[1]) /\ Le(args[1], Get(xp, n - 1))
       /\ \E i \in 0..(n - 2) : InSegment(i, args[1])) =>
        \E i \in 0..(n - 2) :
            /\ InSegment(i, args[1])
            /\ result = Value(DPoly(Seg(i), args[1], args[2]))

\* integrate(a, c) + integrate(c, b) = integrate(a, b), the last being the
\* result of the call in progress, for every c between a and b
Additive ==
    \A c \in QPoints(xp) :
        (Le(args[1], c) /\ Le(c, args[2])) =>
            LET ac == integrate_ab(xp, coeffs, n, args[1], c)
                cb == integrate_ab(xp, coeffs, n, c, args[2])
            IN  /\ result.err = "ok" /\ ac.err = "ok" /\ cb.err = "ok"
                /\ Add(ac.val, cb.val) = result.val

\* C7: integrate(a, c) + integrate(c, b) = integrate(a, b) for all
\* x_0 <= a <= c <= b <= x_{n-1}, on every built spline.
C7_IntegralAdditivity ==
    (Built /\ op = "integrate" /\ Le(Get(xp, 0), args[1])
       /\ Le(args[1], args[2]) /\ Le(args[2], Get(xp, n - 1))) => Additive

\* C7 on valid node sets.
C7_IntegralAdditivityValid ==
    (Built /\ ValidNodes /\ op = "integrate" /\ Le(Get(xp, 0), args[1])
       /\ Le(args[1], args[2]) /\ Le(args[2], Get(xp, n - 1))) => Additive

\* the part of segment i that lies in [lo, hi], integrated
SegPart(i, lo, hi) ==
    LET x0 == Max(Get(xp, i), lo)
        x1 == Min(Get(xp, i + 1), hi)
    IN  IF Lt(x0, x1)
        THEN Sub(polyint(Seg(i), Sub(x1, Get(xp, i))),
                 polyint(Seg(i), Sub(x0, Get(xp, i))))
        ELSE Zero

RECURSIVE SumParts(_, _, _)
SumParts(i, lo, hi) ==
    IF i > n - 2 THEN Zero
    ELSE Add(SegPart(i, lo, hi), SumParts(i + 1, lo, hi))

\* C8: for any bounds, integrate(a, b) is the sum over the segments of the
\* integral over the segment's intersection with [min(a,b), max(a,b)].
C8_IntegralOverIntersection ==
    (Built /\ op = "integrate") =>
        result = Value(SumParts(0, Min(args[1], args[2]), Max(args[1], args[2])))

\* C9: integrate(x_i, x_{i+1}) is the closed form of segment i alone:
\* a_i*h_i + b_i*h_i^2/2 + c_i*h_i^3/3 + d_i*h_i^4/4.
C9_SingleSegmentIntegral ==
    (Built /\ op = "integrate") =>
        \A i \in 0..(n - 2) :
            (args[1] = Get(xp, i) /\ args[2] = Get(xp, i + 1)) =>
                result = Value(polyint(Seg(i), Width(i)))

\* C9 on valid node sets.
C9_SingleSegmentIntegralValid ==
    (Built /\ ValidNodes /\ op = "integrate") =>
        \A i \in 0..(n - 2) :
            (args[1] = Get(xp, i) /\ args[2] = Get(xp, i + 1)) =>
                result = Value(polyint(Seg(i), Width(i)))

\* C10: integrate(a, b) = integrate(b, a): the bounds are swapped when
\* a > b and the sign of the result is not changed.
C10_IntegralSymmetric ==
    (Built /\ op = "integrate") =>
        result = integrate_ab(xp, coeffs, n, args[2], args[1])

C10_Witness ==
    /\ Built /\ op = "integrate" /\ Lt(args[2], args[1])
    /\ result.err = "ok" /\ result.val # Zero

-----------------------------------------------------------------------------
(* Extrapolation, evaluability and input validation                        *)

\* the result of interpolate is the cubic of segment i at the query
OnSegment(i) == result = Value(Poly(Seg(i), args[1]))

\* C11: the segment index used by interpolate lies in 0..n-2; a query below
\* x_0 is evaluated on segment 0, a query above x_{n-1} on segment n-2, and
\* no error is raised.
C11_BoundarySegmentReused ==
    (Built /\ op = "interpolate") =>
        /\ SegIndex(xp, args[1], n) \in 0..(n - 2)
        /\ result.err = "ok"
        /\ Lt(args[1], Get(xp, 0)) => OnSegment(0)
        /\ Lt(Get(xp, n - 1), args[1]) => OnSegment(n - 2)

\* C11 on valid node sets.
C11_BoundarySegmentReusedValid ==
    (Built /\ ValidNodes /\ op = "interpolate") =>
        /\ SegIndex(xp, args[1], n) \in 0..(n - 2)
        /\ result.err = "ok"
        /\ Lt(args[1], Get(xp, 0)) => OnSegment(0)
        /\ Lt(Get(xp, n - 1), args[1]) => OnSegment(n - 2)

\* a query with order in 1..3, or one that takes no order
Evaluation == op \in {"interpolate", "integrate"}
                \/ (op = "derivative" /\ args[2] \in 1..3)

\* C12: on a spline that was built, interpolate, derivative of order 1..3
\* and integrate return a value: none of them raises.
C12_BuiltIsEvaluable ==
    (Built /\ Evaluation) => result.err = "ok"

\* C12 on splines of at least two nodes.
C12_BuiltIsEvaluableTwoNodes ==
    (Built /\ n >= 2 /\ Evaluation) => result.err = "ok"

\* C13: a spline is built only when xp and yp have the same length.
C13_LengthsMatch == Built => Len(yp) = n

\* C14: a spline is built only from two nodes or more.
C14_AtLeastTwoNodes == Built => n >= 2

\* C15: a spline is built only on strictly increasing abscissas, so every
\* segment width of a built spline is positive.
C15_StrictlyIncreasing ==
    Built => (Increasing(xp) /\ \A i \in 0..(n - 2) : Lt(Zero, Width(i)))

\* construction has run (and returned or raised)
Constructed == status # "none"

\* the boundary data that the variant needs was not given
MissingData ==
    \/ bc_type = "clamped" /\ dy_nodes = None
    \/ bc_type = "second" /\ ddy_nodes = None

\* what the interior-row loop of the construction raised
InteriorOutcome == InteriorErrs(yp, diff(xp), 1, n)

C17_InvalidOrderRaises ==
    (Built /\ op = "derivative" /\ args[2] \notin 1..3) => result.err # "ok"

-----------------------------------------------------------------------------
(* The linear system of the construction                                   *)

\* what the assembly of A and rhs raised (interior rows, then boundary rows)
AssemblyOutcome ==
    Then(InteriorOutcome,
         BoundaryErr(bc_type, yp, diff(xp), dy_nodes, ddy_nodes, n))

\* the determinant of a square matrix, by expansion along its first row
Minor(M, c) ==
    Force([r \in 1..(Len(M) - 1) |->
             Force([k \in 1..(Len(M) - 1) |->
                      IF k < c THEN M[r + 1][k] ELSE M[r + 1][k + 1]])])

RECURSIVE Det(_), Expansion(_, _)
Det(M) ==
    IF Len(M) = 0 THEN R(1)
    ELSE IF Len(M) = 1 THEN M[1][1]
    ELSE Expansion(M, 1)
Expansion(M, c) ==
    IF c > Len(M) THEN Zero
    ELSE LET rest == Expansion(M, c + 1)
             t    == IF M[1][c] = Zero THEN Zero
                     ELSE Mul(M[1][c], Det(Minor(M, c)))
         IN  IF c % 2 = 1 THEN Add(t, rest) ELSE Sub(rest, t)

\* row r of A times the vector v
RECURSIVE Dot(_, _, _)
Dot(row, v, k) ==
    IF k > Len(row) THEN Zero
    ELSE Add(Mul(row[k], v[k]), Dot(row, v, k + 1))

\* v solves A . v = rhs exactly
Solves(A, v, rhs) ==
    Len(v) = Len(A) /\ \A r \in 1..Len(A) : Dot(A[r], v, 1) = rhs[r]

-----------------------------------------------------------------------------
(* Queries as reads                                                        *)

\* what the query in progress returns, computed from the fields of the
\* spline as they are now
Answer ==
    IF op = "interpolate" THEN interpolate_at(xp, coeffs, n, args[1])
    ELSE IF op = "derivative" THEN derivative_at(xp, coeffs, n, args[1], args[2])
    ELSE integrate_ab(xp, coeffs, n, args[1], args[2])

-----------------------------------------------------------------------------
(* Segment lookup, degenerate systems, smoothness and the boundary tag      *)

\* x lies in the node range [x_0, x_{n-1}]
InNodeRange(v) == Le(Get(xp, 0), v) /\ Le(v, Get(xp, n - 1))

\* the index looked up for v is a segment of the spline that contains v
Contains(v) ==
    LET i == SegIndex(xp, v, n)
    IN  i \in 0..(n - 2) /\ InSegment(i, v)

\* the lookups of the query in progress, for arguments in the node range
LookupsContain ==
    /\ (op = "interpolate" /\ InNodeRange(args[1])) => Contains(args[1])
    /\ (op = "integrate" /\ InNodeRange(args[1]) /\ InNodeRange(args[2])) =>
           (Contains(Bounds(args[1], args[2])[1])
              /\ Contains(Bounds(args[1], args[2])[2]))

\* C25: on a built spline with strictly increasing nodes, for x in
\* [x_0, x_{n-1}] the index clip(searchsorted(xp, x) - 1, 0, n-2) used by
\* interpolate is a segment with x_i <= x <= x_{i+1}; so are the indices
\* 'left' and 'right' that integrate derives from its bounds.
C25_LookupContains ==
    (Built /\ Increasing(xp)) => LookupsContain

\* C25 on splines of at least two nodes.
C25_LookupContainsTwoNodes ==
    (Built /\ Increasing(xp) /\ n >= 2) => LookupsContain

\* row r of the assembled matrix and entry r of the right-hand side
RowOfA(r) == Get(SystemA(bc_type, diff(xp), n), r)
EntryOfRhs(r) ==
    Get(SystemRhs(bc_type, yp, diff(xp), dy_nodes, ddy_nodes, n), r)

\* C26: a 'periodic' construction on n >= 2 nodes never returns a spline:
\* whenever the system is assembled, rows 0 and n-1 of A are both
\* (1, 0, .., 0, -1) with right-hand side 0, A is singular and construction
\* ends in LinAlgError, whatever yp is; it is assembled on every valid node
\* set.
C26_PeriodicNeverBuilds ==
    (Constructed /\ op = "idle" /\ bc_type = "periodic" /\ n >= 2) =>
        /\ ~Built /\ m = None /\ coeffs = None
        /\ ValidNodes => AssemblyOutcome = "ok"
        /\ AssemblyOutcome = "ok" =>
              /\ RowOfA(0) = RowOfA(n - 1)
              /\ \A c \in 0..(n - 1) :
                    Get(RowOfA(0), c) =
                       (IF c = 0 THEN R(1) ELSE IF c = n - 1 THEN R(-1) ELSE Zero)
              /\ EntryOfRhs(0) = Zero /\ EntryOfRhs(n - 1) = Zero
              /\ status = "LinAlgError"

C26_Witness ==
    /\ status = "LinAlgError" /\ bc_type = "periodic" /\ ValidNodes
    /\ Get(yp, 0) = Get(yp, n - 1) /\ \E k \in 0..(n - 1) : Get(yp, k) # Zero

\* C27: a not-a-knot construction on exactly 3 nodes never returns a spline:
\* whenever the system is assembled, rows 0 and 2 of A are both
\* (h_1, -(h_0 + h_1), h_0) with right-hand side 0 and construction ends in
\* LinAlgError; a built not-a-knot spline has n >= 4.
C27_ThreeNodeNotAKnotNeverBuilds ==
    (Constructed /\ op = "idle" /\ bc_type = "not-a-knot") =>
        /\ Built => n >= 4
        /\ (n = 3 /\ ValidNodes) => AssemblyOutcome = "ok"
        /\ (n = 3 /\ AssemblyOutcome = "ok") =>
              /\ RowOfA(0) = <<Width(1), Neg(Add(Width(0), Width(1))), Width(0)>>
              /\ RowOfA(2) = RowOfA(0)
              /\ EntryOfRhs(0) = Zero /\ EntryOfRhs(2) = Zero
              /\ status = "LinAlgError" /\ m = None /\ coeffs = None

C27_Witness ==
    /\ status = "LinAlgError" /\ bc_type = "not-a-knot" /\ n = 3 /\ ValidNodes
    /\ Width(0) # Width(1)

\* the second derivative of segment i at its left and at its right end
Second_Left(i)  == Mul(R(2), Seg(i)[3])
Second_Right(i) ==
    Add(Mul(R(2), Seg(i)[3]), Mul(Mul(R(6), Seg(i)[4]), Width(i)))

\* C28: at every interior node x_k of a built spline the second derivative
\* of segment k-1 at its right end, 2*c_{k-1} + 6*d_{k-1}*h_{k-1}, equals
\* that of segment k at its left end, 2*c_k, under every boundary variant.
C28_SecondDerivativeContinuity ==
    Built => \A k \in 1..(n - 2) : Second_Right(k - 1) = Second_Left(k)

C28_Witness ==
    /\ Built /\ ValidNodes /\ n >= 4 /\ bc_type = "second"
    /\ Width(0) # Width(1) /\ Second_Left(1) # Zero /\ Second_Left(2) # Zero

\* the query lies strictly outside the node range
OutsideNodes(v) == Lt(v, Get(xp, 0)) \/ Lt(Get(xp, n - 1), v)

\* C29: for order 1, 2, 3 and x < x_0 or x > x_{n-1}, derivative(x, order)
\* returns 0, whereas interpolate(x) returns the cubic of the boundary
\* segment at x.
C29_DerivativeZeroOutside ==
    /\ (Built /\ op = "derivative" /\ args[2] \in 1..3 /\ OutsideNodes(args[1])) =>
           result = Value(Zero)
    /\ (Built /\ op = "interpolate" /\ OutsideNodes(args[1])) =>
           /\ n >= 2
           /\ Lt(args[1], Get(xp, 0)) => OnSegment(0)
           /\ Lt(Get(xp, n - 1), args[1]) => OnSegment(n - 2)

\* C29 on valid node sets.
C29_DerivativeZeroOutsideValid ==
    ValidNodes =>
    /\ (Built /\ op = "derivative" /\ args[2] \in 1..3 /\ OutsideNodes(args[1])) =>
           result = Value(Zero)
    /\ (Built /\ op = "interpolate" /\ OutsideNodes(args[1])) =>
           /\ n >= 2
           /\ Lt(args[1], Get(xp, 0)) => OnSegment(0)
           /\ Lt(Get(xp, n - 1), args[1]) => OnSegment(n - 2)

\* a tag that is none of 'clamped', 'second', 'periodic', 'not-a-knot'
UnknownTag == bc_type \notin {"clamped", "second", "periodic", "not-a-knot"}

\* C30: with a tag other than 'clamped', 'second', 'periodic' construction
\* ends as with 'not-a-knot' on the same nodes - the same outcome, tangent
\* vector and coefficient table, whatever dy_nodes and ddy_nodes are - and
\* raises no error about the tag.
C30_UnknownTagIsNotAKnot ==
    (Constructed /\ op = "idle" /\ UnknownTag) =>
        /\ status # "ValueError"
        /\ \A dy \in {None, to_decimal(<<1, 2>>)} :
           \A ddy \in {None, to_decimal(<<1, 2>>)} :
              LET b == build_spline(xp, yp, "not-a-knot", dy, ddy)
              IN  status = b.status /\ m = b.m /\ coeffs = b.coeffs

C30_Witness ==
    /\ Built /\ UnknownTag /\ ValidNodes /\ n >= 4
    /\ \E k \in 0..(n - 1) : Get(m, k) # Zero

-----------------------------------------------------------------------------
(* The process-wide Decimal context                                        *)
(*                                                                         *)
(* Here a Decimal is kept as its significant digits: sign, the digits      *)
(* d_1 d_2 .. d_k (d_1 # 0, d_k # 0) and the exponent e of d_1, the value  *)
(* being d_1.d_2..d_k * 10^e.  A quotient is rounded to prec significant   *)
(* digits, half to even, as Decimal.__truediv__ does under the context.    *)

DecZero == [sign |-> 0, digits |-> <<>>, exp |-> 0]

\* a and b > 0 brought to b <= a < 10*b, with the power of ten taken out
RECURSIVE Scale(_, _, _)
Scale(a, b, e) ==
    IF a < b THEN Scale(10 * a, b, e - 1)
    ELSE IF a >= 10 * b THEN Scale(a, 10 * b, e + 1)
    ELSE <<a, b, e>>

\* up to k further digits of the long division of remainder r by b, and the
\* remainder they leave
RECURSIVE LongDiv(_, _, _)
LongDiv(r, b, k) ==
    IF k = 0 \/ r = 0 THEN <<>>
    ELSE <<(10 * r) \div b>> \o LongDiv((10 * r) % b, b, k - 1)

RECURSIVE Remainder(_, _, _)
Remainder(r, b, k) ==
    IF k = 0 \/ r = 0 THEN r ELSE Remainder((10 * r) % b, b, k - 1)

\* the digits ds plus one unit in the last place: <<carry, digits>>
RECURSIVE Increment(_)
Increment(ds) ==
    IF ds = <<>> THEN <<1, <<>>>>
    ELSE LET last == ds[Len(ds)]
             init == SubSeq(ds, 1, Len(ds) - 1)
         IN  IF last < 9 THEN <<0, Append(init, last + 1)>>
             ELSE LET up == Increment(init)
                  IN  <<up[1], Append(up[2], 0)>>

RECURSIVE Strip(_)
Strip(ds) ==
    IF ds # <<>> /\ ds[Len(ds)] = 0 THEN Strip(SubSeq(ds, 1, Len(ds) - 1))
    ELSE ds

\* Decimal(a) / Decimal(b) for integers a and b # 0 under precision p
DecimalQuotient(a, b, p) ==
    IF a = 0 THEN DecZero
    ELSE LET sc   == Scale(Abs(a), Abs(b), 0)
             d1   == sc[1] \div sc[2]
             r1   == sc[1] % sc[2]
             ds   == <<d1>> \o LongDiv(r1, sc[2], p - 1)
             r    == Remainder(r1, sc[2], p - 1)
             next == (10 * r) \div sc[2]
             rest == (10 * r) % sc[2]
             up   == r # 0 /\ (next > 5 \/ (next = 5 /\ rest # 0)
                                 \/ (next = 5 /\ rest = 0 /\ ds[Len(ds)] % 2 = 1))
             inc  == Increment(ds)
             sg   == IF (a < 0) = (b < 0) THEN 1 ELSE -1
         IN  IF ~up THEN [sign |-> sg, digits |-> Strip(ds), exp |-> sc[3]]
             ELSE IF inc[1] = 0
                  THEN [sign |-> sg, digits |-> Strip(inc[2]), exp |-> sc[3]]
                  ELSE [sign |-> sg, digits |-> <<1>>, exp |-> sc[3] + 1]

\* the coefficient row of the one segment of hspline([0, w], [0, dy],
\* 'clamped', dy_nodes=[0, 0]) under precision p: m = [0, 0], so that
\* c = 3*dy/w**2 and d = -2*dy/w**3, the products being exact for p >= 5
TwoNodeCoeffs(w, dy, p) ==
    << <<DecZero, DecZero, DecimalQuotient(3 * dy, w * w, p),
         DecimalQuotient(-2 * dy, w * w * w, p), DecZero>> >>

\* the widths and ordinate steps tried, and the precisions a caller passes
\* to ApproxNum
MaxWidth == 7
Widths == 1..MaxWidth
Rises  == 1..3
Precisions == {5, 10, DefaultPrec, 28}

\* ApproxNum(value, precision=p): the constructor sets the context precision
ApproxNum(p) ==
    /\ op = "idle"
    /\ prec' = p
    /\ UNCHANGED <<spline, status, op, args, result>>

\* hspline([0, w], [0, dy], 'clamped', dy_nodes=[0, 0]) under the context
hsplineTwoNodes(w, dy) ==
    /\ status = "none"
    /\ xp' = to_decimal(<<0, w>>) /\ yp' = to_decimal(<<0, dy>>) /\ n' = 2
    /\ bc_type' = "clamped" /\ dy_nodes' = to_decimal(<<0, 0>>)
    /\ ddy_nodes' = None /\ m' = to_decimal(<<0, 0>>)
    /\ coeffs' = TwoNodeCoeffs(w, dy, prec)
    /\ status' = "built"
    /\ UNCHANGED <<op, args, result, prec>>

SetPrecision == \E p \in Precisions : ApproxNum(p)
ConstructTwoNodes == \E w \in Widths : \E dy \in Rises : hsplineTwoNodes(w, dy)

NextPrecision == SetPrecision \/ ConstructTwoNodes

SpecPrecision == Init /\ [][NextPrecision]_vars

\* C21: what construction returns depends on its arguments alone, not on
\* the process-wide precision: the coefficient table is the one that the
\* same arguments give in a process where no other call has set the
\* precision.
C21_PrecisionIndependent ==
    Built => coeffs = TwoNodeCoeffs(Get(xp, 1)[1], Get(yp, 1)[1], DefaultPrec)

\* C21 for constructions made while the context precision is the default.
C21_SameUnderDefault ==
    [][(status = "none" /\ status' = "built" /\ prec = DefaultPrec)
          => coeffs' = TwoNodeCoeffs(Get(xp', 1)[1], Get(yp', 1)[1], DefaultPrec)]_vars

-----------------------------------------------------------------------------
(* The shape and the type of what interpolate and derivative return        *)

\* a query is a scalar or a sequence of abscissas; np.atleast_1d makes
\* either a one-dimensional array
Scalar(v)    == [shape |-> "scalar", vals |-> <<v>>]
Array(vs)    == [shape |-> "array", vals |-> vs]
atleast_1d(q) == q.vals

\* the first exception raised while the loop fills result, "ok" if none
RECURSIVE LoopErr(_)
LoopErr(rs) ==
    IF rs = <<>> THEN "ok"
    ELSE IF rs[1].err # "ok" THEN rs[1].err ELSE LoopErr(Tail(rs))

\* to_decimal(result if len(result) > 1 else result[0])
DecimalOf(vs) ==
    [err |-> "ok", type |-> "Decimal",
     shape |-> IF Len(vs) > 1 THEN "array" ELSE "scalar", vals |-> vs]

\* np.float64(result): an array for an array of two or more entries.  For
\* an array of one entry numpy first offers the array to float(), which
\* takes a one-entry array in the releases where that conversion is only
\* deprecated (a scalar comes back) and refuses it where it is removed
\* (the one-entry array comes back); no release is pinned.  The entries
\* stand for the doubles nearest to them.
Float64Of(vs) ==
    {[err |-> "ok", type |-> "float64", shape |-> sh, vals |-> vs] :
        sh \in IF Len(vs) > 1 THEN {"array"} ELSE {"scalar", "array"}}

Thrown(e) == [err |-> e, type |-> "", shape |-> "", vals |-> <<>>]

\* the return statement shared by interpolate and derivative
Returned(rs, return_type) ==
    IF LoopErr(rs) # "ok" THEN {Thrown(LoopErr(rs))}
    ELSE LET vs == [k \in 1..Len(rs) |-> rs[k].val]
         IN  IF return_type = "Decimal" THEN {DecimalOf(Force(vs))}
             ELSE Float64Of(Force(vs))

interpolate_shaped(q, return_type) ==
    LET x == atleast_1d(q)
    IN  Returned(Force([k \in 1..Len(x) |-> interpolate_at(xp, coeffs, n, x[k])]),
                 return_type)

derivative_shaped(q, order, return_type) ==
    LET x_vals == atleast_1d(q)
    IN  Returned(Force([k \in 1..Len(x_vals) |->
                          derivative_at(xp, coeffs, n, x_vals[k], order)]),
                 return_type)

interpolate_rt(q, return_type) ==
    /\ status = "built" /\ op = "idle"
    /\ op' = "interpolate" /\ args' = <<q, return_type>>
    /\ result' \in interpolate_shaped(q, return_type)
    /\ UNCHANGED <<spline, status, prec>>

derivative_rt(q, order, return_type) ==
    /\ status = "built" /\ op = "idle"
    /\ op' = "derivative" /\ args' = <<q, return_type, order>>
    /\ result' \in derivative_shaped(q, order, return_type)
    /\ UNCHANGED <<spline, status, prec>>

\* the queries tried: every scalar of QPoints, every pair of them, and the
\* three-entry sequence of the first node, the first midpoint and the last
\* node
Queries(x) ==
    {Scalar(v) : v \in QPoints(x)}
      \cup {Array(<<u, v>>) : u \in QPoints(x), v \in QPoints(x)}
      \cup {Array(<<x[1], Mid(x, 1), x[Len(x)]>>)}
ReturnTypes == {"Decimal", "float"}

\* splines on two or three ascending nodes with end slopes or end second
\* derivatives given
ShapeNodes == {xs \in Ascending : Len(xs) <= 3}
ConstructShaped ==
    /\ status = "none"
    /\ \E xs \in ShapeNodes : \E k \in 1..2 : \E bc \in {"clamped", "second"} :
          hspline(xs, Unit(k, Len(xs)), bc,
                  IF bc = "clamped" THEN <<1, 2>> ELSE None,
                  IF bc = "second" THEN <<1, 2>> ELSE None)
InterpolateShaped ==
    /\ status = "built" /\ op = "idle"
    /\ \E q \in Queries(xp) : \E rt \in ReturnTypes : interpolate_rt(q, rt)
DerivativeShaped ==
    /\ status = "built" /\ op = "idle"
    /\ \E q \in Queries(xp) : \E order \in 1..3 : \E rt \in ReturnTypes :
          derivative_rt(q, order, rt)

NextShape == ConstructShaped \/ InterpolateShaped \/ DerivativeShaped \/ Return

SpecShape == Init /\ [][NextShape]_vars

ShapedCall == op \in {"interpolate", "derivative"} /\ result.err = "ok"

\* what the scalar query of the k-th entry returns in the same mode
ScalarResults(k) ==
    IF op = "interpolate"
    THEN interpolate_shaped(Scalar(args[1].vals[k]), args[2])
    ELSE derivative_shaped(Scalar(args[1].vals[k]), args[3], args[2])

\* a sequence of k >= 2 queries returns k values in query order, each the
\* value of the scalar query
SequenceFollows ==
    (args[1].shape = "array" /\ Len(args[1].vals) >= 2)
        => /\ result.shape = "array"
           /\ Len(result.vals) = Len(args[1].vals)
           /\ \A k \in 1..Len(args[1].vals) :
                 \E r \in ScalarResults(k) :
                    r.type = result.type /\ r.vals = <<result.vals[k]>>

\* C22: in both modes a scalar query returns a single value and a sequence
\* of k >= 2 queries returns k values in query order, each equal to the
\* result of the corresponding scalar query.
C22_ShapeFollowsQuery ==
    ShapedCall => /\ (args[1].shape = "scalar" => result.shape = "scalar")
                  /\ SequenceFollows

\* C22 without the scalar query in 'float' mode.
C22_ShapeFollowsQueryDecimal ==
    ShapedCall => /\ (args[1].shape = "scalar" /\ args[2] = "Decimal"
                        => result.shape = "scalar")
                  /\ SequenceFollows

-----------------------------------------------------------------------------
(* optimize.fsolve: tangent_solve and secant_solve                         *)
(*                                                                         *)
(* A value is a rational <<p, q>> with q > 0, or one of the infinities     *)
(* <<1, 0>> and <<-1, 0>> that float arithmetic produces on a division by  *)
(* zero and that Decimal(str(.)) keeps, or the NaN <<0, 0>>.                *)

PosInf == <<1, 0>>
NegInf == <<-1, 0>>
IsInf(v) == v[2] = 0 /\ v[1] # 0
SignOf(v) == IF v[1] < 0 THEN -1 ELSE IF v[1] > 0 THEN 1 ELSE 0
InfOf(sg) == IF sg < 0 THEN NegInf ELSE PosInf

RECURSIVE Pow2(_)
Pow2(k) == IF k = 0 THEN 1 ELSE 2 * Pow2(k - 1)

\* np.float64(x): the nearest float, ties to even.  The mantissa is
\* shortened to Mantissa bits (a double has 53) so that the rounding of an
\* iterate is reached with small numbers; the exponent range is not bounded.
Mantissa == 5

RECURSIVE Scale2(_, _, _)
Scale2(a, b, e) ==
    IF a < b * Pow2(Mantissa - 1) THEN Scale2(2 * a, b, e - 1)
    ELSE IF a >= b * Pow2(Mantissa) THEN Scale2(a, 2 * b, e + 1)
    ELSE <<a, b, e>>

float64(x) ==
    IF IsInf(x) \/ x[1] = 0 THEN x
    ELSE LET sc == Scale2(Abs(x[1]), x[2], 0)
             q  == sc[1] \div sc[2]
             r  == sc[1] % sc[2]
             up == 2 * r > sc[2] \/ (2 * r = sc[2] /\ q % 2 = 1)
             mt == SignOf(x) * (IF up THEN q + 1 ELSE q)
         IN  IF sc[3] >= 0 THEN Norm(mt * Pow2(sc[3]), 1)
             ELSE Norm(mt, Pow2(-sc[3]))

\* Decimal arithmetic with infinities: the operations that signal
\* InvalidOperation, and the values of those that do not
SubSignals(a, b) == IsInf(a) /\ IsInf(b) /\ a = b
MulSignals(a, b) == (IsInf(a) /\ b = Zero) \/ (IsInf(b) /\ a = Zero)
DivSignals(a, b) == IsInf(a) /\ IsInf(b)

DSub(a, b) == IF IsInf(a) THEN a
              ELSE IF IsInf(b) THEN InfOf(-SignOf(b))
              ELSE Sub(a, b)
DMul(a, b) == IF IsInf(a) \/ IsInf(b) THEN InfOf(SignOf(a) * SignOf(b))
              ELSE Mul(a, b)
DDiv(a, b) == IF IsInf(a) THEN InfOf(SignOf(a) * SignOf(b))
              ELSE IF IsInf(b) THEN Zero
              ELSE Div(a, b)
\* abs(v) < eps
AbsLt(v, eps) == ~IsInf(v) /\ Lt(AbsR(v), eps)

\* the functions handed to the solvers, and what their compiled forms give
\* in float arithmetic (no exception: 1/0.0 is inf, 1/inf is 0.0)
Functions == {"x - 1", "x**2 - 2", "x**2 + 1", "1", "1/x"}

f_at(f, x) ==
    float64(CASE f = "x - 1"    -> IF IsInf(x) THEN x ELSE Sub(x, R(1))
              [] f = "x**2 - 2" -> IF IsInf(x) THEN PosInf ELSE Sub(Sq(x), R(2))
              [] f = "x**2 + 1" -> IF IsInf(x) THEN PosInf ELSE Add(Sq(x), R(1))
              [] f = "1"        -> R(1)
              [] f = "1/x"      -> IF IsInf(x) THEN Zero
                                   ELSE IF x = Zero THEN PosInf ELSE Inv(x))

\* lambdify(x_sym, diff(f_expr, x_sym))
f_prime_at(f, x) ==
    float64(CASE f = "x - 1"    -> R(1)
              [] f = "x**2 - 2" -> IF IsInf(x) THEN x ELSE Mul(R(2), x)
              [] f = "x**2 + 1" -> IF IsInf(x) THEN x ELSE Mul(R(2), x)
              [] f = "1"        -> Zero
              [] f = "1/x"      -> IF IsInf(x) THEN Zero
                                   ELSE IF x = Zero THEN NegInf
                                   ELSE Neg(Inv(Sq(x))))

\* how one pass of the loop body ends: it returns, it raises, or the loop
\* goes on with the new iterate(s)
Ends(k, x)     == [kind |-> k, x |-> x]
GoesOn(xs)     == [kind |-> "continue", x |-> xs]

\* the body of the loop of tangent_solve
tangent_step(f, x_n, eps) ==
    LET f_val   == f_at(f, float64(x_n))
        f_deriv == f_prime_at(f, float64(x_n))
        q       == DDiv(f_val, f_deriv)
        x_next  == DSub(x_n, q)
    IN  IF f_deriv = Zero THEN Ends("ZeroDivisionError", Zero)
        ELSE IF DivSignals(f_val, f_deriv) THEN Ends("InvalidOperation", Zero)
        ELSE IF SubSignals(x_n, q) THEN Ends("InvalidOperation", Zero)
        ELSE IF SubSignals(x_next, x_n) THEN Ends("InvalidOperation", Zero)
        ELSE IF AbsLt(DSub(x_next, x_n), eps) THEN Ends("return", x_next)
        ELSE GoesOn(x_next)

\* the body of the loop of secant_solve; xs = <<x_prev, x_curr>>
secant_step(f, xs, eps) ==
    LET x_prev == xs[1]
        x_curr == xs[2]
        f_prev == f_at(f, float64(x_prev))
        f_curr == f_at(f, float64(x_curr))
        denominator == DSub(f_curr, f_prev)
        d      == DSub(x_curr, x_prev)
        p      == DMul(f_curr, d)
        q      == DDiv(p, denominator)
        x_next == DSub(x_curr, q)
    IN  IF SubSignals(f_curr, f_prev) THEN Ends("InvalidOperation", Zero)
        ELSE IF denominator = Zero THEN Ends("ZeroDivisionError", Zero)
        ELSE IF SubSignals(x_curr, x_prev) THEN Ends("InvalidOperation", Zero)
        ELSE IF MulSignals(f_curr, d) THEN Ends("InvalidOperation", Zero)
        ELSE IF DivSignals(p, denominator) THEN Ends("InvalidOperation", Zero)
        ELSE IF SubSignals(x_curr, q) THEN Ends("InvalidOperation", Zero)
        ELSE IF SubSignals(x_next, x_curr) THEN Ends("InvalidOperation", Zero)
        ELSE IF AbsLt(DSub(x_next, x_curr), eps) THEN Ends("return", x_next)
        ELSE GoesOn(<<x_curr, x_next>>)

\* (the loop running one pass past max_iter)
LastIter_Inclusive(max_iter) == max_iter + 1

\* range(1, max_iter + 1): the last value of i
LastIter(max_iter) == max_iter

\* np.float64(x_next) if return_type == 'float' else x_next
Converted(x, return_type) == IF return_type = "float" THEN float64(x) ELSE x

\* the outcome of a call: how it ends, the value returned, and the number
\* of passes of the loop body made
Outcome(k, x, i) == [kind |-> k, x |-> x, iters |-> i]

RECURSIVE tangent_loop(_, _, _, _, _, _)
tangent_loop(f, x_n, eps, max_iter, return_type, i) ==
    IF i > LastIter(max_iter) THEN Outcome("RuntimeError", Zero, i - 1)
    ELSE LET st == tangent_step(f, x_n, eps)
         IN  IF st.kind = "continue"
             THEN tangent_loop(f, st.x, eps, max_iter, return_type, i + 1)
             ELSE Outcome(st.kind, IF st.kind = "return"
                                   THEN Converted(st.x, return_type) ELSE Zero, i)

tangent_solve(f, x0, eps, max_iter, return_type) ==
    tangent_loop(f, x0, eps, max_iter, return_type, 1)

RECURSIVE secant_loop(_, _, _, _, _, _)
secant_loop(f, xs, eps, max_iter, return_type, i) ==
    IF i > LastIter(max_iter) THEN Outcome("RuntimeError", Zero, i - 1)
    ELSE LET st == secant_step(f, xs, eps)
         IN  IF st.kind = "continue"
             THEN secant_loop(f, st.x, eps, max_iter, return_type, i + 1)
             ELSE Outcome(st.kind, IF st.kind = "return"
                                   THEN Converted(st.x, return_type) ELSE Zero, i)

secant_solve(f, x0, x1, eps, max_iter, return_type) ==
    secant_loop(f, <<x0, x1>>, eps, max_iter, return_type, 1)

\* the arguments tried
MaxIter == 3
MaxIters == -1..MaxIter
Starts   == {R(-1), Zero, R(1), R(2)}
Epsilons == {Zero, <<1, 100>>, <<1, 2>>}

TangentSolve ==
    /\ op = "idle"
    /\ \E f \in Functions : \E x0 \in Starts : \E eps \in Epsilons :
       \E max_iter \in MaxIters : \E rt \in ReturnTypes :
          /\ op' = "tangent_solve"
          /\ args' = <<f, <<x0>>, eps, max_iter, rt>>
          /\ result' = tangent_solve(f, x0, eps, max_iter, rt)
    /\ UNCHANGED <<spline, status, prec>>

SecantSolve ==
    /\ op = "idle"
    /\ \E f \in Functions : \E x0 \in Starts : \E x1 \in Starts :
       \E eps \in Epsilons : \E max_iter \in MaxIters : \E rt \in ReturnTypes :
          /\ op' = "secant_solve"
          /\ args' = <<f, <<x0, x1>>, eps, max_iter, rt>>
          /\ result' = secant_solve(f, x0, x1, eps, max_iter, rt)
    /\ UNCHANGED <<spline, status, prec>>

NextSolve == TangentSolve \/ SecantSolve \/ Return

SpecSolve == Init /\ [][NextSolve]_vars

Solving == op \in {"tangent_solve", "secant_solve"}

\* the iterate(s) the call starts from, and the body of its loop
Start      == IF op = "tangent_solve" THEN args[2][1] ELSE args[2]
StepOf(xs) == IF op = "tangent_solve" THEN tangent_step(args[1], xs, args[3])
              ELSE secant_step(args[1], xs, args[3])

\* how pass j of the loop body ends when no pass before it left the loop
\* (and how the pass that left it ended, otherwise)
RECURSIVE Pass(_)
Pass(j) ==
    IF j = 1 THEN StepOf(Start)
    ELSE LET prev == Pass(j - 1)
         IN  IF prev.kind = "continue" THEN StepOf(prev.x) ELSE prev

Before(j) == IF j = 1 THEN Start ELSE Pass(j - 1).x

\* the values of f (and of its derivative) that a pass computes
ValuesAt(xs) ==
    IF op = "tangent_solve"
    THEN {f_at(args[1], float64(xs)), f_prime_at(args[1], float64(xs))}
    ELSE {f_at(args[1], float64(xs[1])), f_at(args[1], float64(xs[2]))}

\* the derivative (tangent) or the difference of the two values (secant)
\* of a pass is exactly 0
ZeroAt(xs) ==
    IF op = "tangent_solve" THEN f_prime_at(args[1], float64(xs)) = Zero
    ELSE f_at(args[1], float64(xs[2])) = f_at(args[1], float64(xs[1]))

FiniteValues ==
    \A j \in 1..result.iters : \A v \in ValuesAt(Before(j)) : ~IsInf(v)

\* the three outcomes: (x_next, i) at the first pass i that converges, with
\* 1 <= i <= max_iter; ZeroDivisionError at the first pass whose derivative
\* or difference is 0; RuntimeError after exactly max_iter passes (none
\* when max_iter <= 0); never more than max_iter passes
ThreeOutcomes ==
    LET i == result.iters
        max_iter == args[4]
        NoneBefore == \A j \in 1..(i - 1) :
                         Pass(j).kind = "continue" /\ ~ZeroAt(Before(j))
    IN  /\ result.kind \in {"return", "ZeroDivisionError", "RuntimeError"}
        /\ i <= MaxI(max_iter, 0)
        /\ result.kind = "return" =>
              /\ 1 <= i /\ i <= max_iter /\ NoneBefore
              /\ ~ZeroAt(Before(i)) /\ Pass(i).kind = "return"
              /\ result.x = Converted(Pass(i).x, args[5])
        /\ result.kind = "ZeroDivisionError" =>
              /\ 1 <= i /\ i <= max_iter /\ NoneBefore
              /\ ZeroAt(Before(i))
        /\ result.kind = "RuntimeError" =>
              /\ i = MaxI(max_iter, 0)
              /\ \A j \in 1..i : Pass(j).kind = "continue"

\* C23: every call of tangent_solve or secant_solve ends in exactly one of
\* the three outcomes and makes at most max_iter passes.
C23_ThreeOutcomes == Solving => ThreeOutcomes

\* C23 for the calls during which every value of f (and of its derivative)
\* is finite; with an infinite value the Decimal arithmetic raises
\* decimal.InvalidOperation instead.
C23_ThreeOutcomesFinite == (Solving /\ FiniteValues) => ThreeOutcomes

\* a call with finite values that converges at its second pass or later
C23_Witness ==
    /\ Solving /\ FiniteValues
    /\ result.kind = "return" /\ result.iters >= 2

-----------------------------------------------------------------------------
(* optimize.tridiagonal_alg: thomasalg                                     *)
(*                                                                         *)
(* numpy float arithmetic: a division by zero gives inf or nan and a       *)
(* warning, never an exception.  Finite results are kept exact.            *)

NaN == <<0, 0>>
IsNaN(v) == v = NaN
Finite(v) == v[2] # 0

FNeg(a) == IF Finite(a) THEN Neg(a) ELSE <<-a[1], 0>>
FAdd(a, b) ==
    IF IsNaN(a) \/ IsNaN(b) THEN NaN
    ELSE IF IsInf(a) /\ IsInf(b) THEN (IF a = b THEN a ELSE NaN)
    ELSE IF IsInf(a) THEN a
    ELSE IF IsInf(b) THEN b
    ELSE Add(a, b)
FSub(a, b) == FAdd(a, FNeg(b))
FMul(a, b) ==
    IF IsNaN(a) \/ IsNaN(b) THEN NaN
    ELSE IF IsInf(a) \/ IsInf(b)
         THEN (IF a = Zero \/ b = Zero THEN NaN ELSE InfOf(SignOf(a) * SignOf(b)))
    ELSE Mul(a, b)
FDiv(a, b) ==
    IF IsNaN(a) \/ IsNaN(b) THEN NaN
    ELSE IF IsInf(a) THEN (IF IsInf(b) THEN NaN
                           ELSE InfOf(SignOf(a) * (IF SignOf(b) < 0 THEN -1 ELSE 1)))
    ELSE IF IsInf(b) THEN Zero
    ELSE IF b = Zero THEN (IF a = Zero THEN NaN ELSE InfOf(SignOf(a)))
    ELSE Div(a, b)

\* (the sub-diagonal padded at its end, as the super-diagonal is)
PadLower_Trailing(lower_diag) == to_decimal(lower_diag) \o <<Zero>>

\* np.concatenate([[0], np.asarray(lower_diag, dtype=float)])
PadLower(lower_diag) == <<Zero>> \o to_decimal(lower_diag)

\* np.concatenate([np.asarray(upper_diag, dtype=float), [0]])
PadUpper(upper_diag) == to_decimal(upper_diag) \o <<Zero>>

\* main_diag[i] + lower_diag[i] * alpha[i], with Python's index i
Denominator(main, lo, alpha, i) ==
    FAdd(main[i + 1], FMul(lo[i + 1], alpha[i + 1]))

\* the forward loop from pass i on; ab = <<alpha, beta>> filled up to
\* index i
RECURSIVE Forward(_, _, _, _, _, _)
Forward(main, lo, up, rhs, i, ab) ==
    IF i >= Len(main) - 1 THEN ab
    ELSE LET denominator == Denominator(main, lo, ab[1], i)
             a == FDiv(FNeg(up[i + 1]), denominator)
             b == FDiv(FSub(rhs[i + 1], FMul(lo[i + 1], ab[2][i + 1])),
                       denominator)
         IN  Forward(main, lo, up, rhs, i + 1,
                     <<Append(ab[1], a), Append(ab[2], b)>>)

\* the backward loop: xs holds x[i + 1 .. n - 1]
RECURSIVE Backward(_, _, _)
Backward(ab, i, xs) ==
    IF i < 0 THEN xs
    ELSE Backward(ab, i - 1,
                  <<FAdd(FMul(ab[1][i + 2], xs[1]), ab[2][i + 2])>> \o xs)

thomasalg(main_diag, lower_diag, upper_diag, rhs_vector) ==
    LET nn == Len(main_diag)
    IN  IF Len(lower_diag) # nn - 1 THEN [err |-> "ValueError", x |-> <<>>]
        ELSE IF Len(upper_diag) # nn - 1 THEN [err |-> "ValueError", x |-> <<>>]
        ELSE IF Len(rhs_vector) # nn THEN [err |-> "ValueError", x |-> <<>>]
        ELSE LET lo   == PadLower(lower_diag)
                 up   == PadUpper(upper_diag)
                 main == to_decimal(main_diag)
                 rhs  == to_decimal(rhs_vector)
                 ab   == Forward(main, lo, up, rhs, 0, <<<<Zero>>, <<Zero>>>>)
                 last == FDiv(FSub(rhs[nn], FMul(lo[nn], ab[2][nn])),
                              Denominator(main, lo, ab[1], nn - 1))
             IN  [err |-> "ok", x |-> Backward(ab, nn - 2, <<last>>)]

\* the systems tried: of dimension 1..MaxDim with small integer entries,
\* and sequences of ones of every combination of lengths up to MaxDim
MaxDim == 3

RECURSIVE SeqsOf(_, _)
SeqsOf(S, k) ==
    IF k = 0 THEN {<<>>}
    ELSE {Append(w, e) : w \in SeqsOf(S, k - 1), e \in S}

Ones(k) == Force([i \in 1..k |-> 1])

LengthsMatch(main, lower, upper, rhs) ==
    /\ Len(main) >= 1 /\ Len(lower) = Len(main) - 1
    /\ Len(upper) = Len(main) - 1 /\ Len(rhs) = Len(main)

Thomas(main, lower, upper, rhs) ==
    /\ op = "idle"
    /\ op' = "thomasalg" /\ args' = <<main, lower, upper, rhs>>
    /\ result' = thomasalg(main, lower, upper, rhs)
    /\ UNCHANGED <<spline, status, prec>>

ThomasSystem ==
    /\ op = "idle"
    /\ \E k \in 1..MaxDim :
       \E main \in SeqsOf({0, 1, 2}, k) : \E lower \in SeqsOf({0, 1}, k - 1) :
       \E upper \in SeqsOf({-1, 1}, k - 1) : \E rhs \in SeqsOf({0, 1}, k) :
          Thomas(main, lower, upper, rhs)

ThomasLengths ==
    /\ op = "idle"
    /\ \E k \in 0..MaxDim : \E l \in 0..MaxDim : \E u \in 0..MaxDim :
       \E r \in 0..MaxDim :
          /\ ~LengthsMatch(Ones(k), Ones(l), Ones(u), Ones(r))
          /\ Thomas(Ones(k), Ones(l), Ones(u), Ones(r))

NextThomas == ThomasSystem \/ ThomasLengths \/ Return

SpecThomas == Init /\ [][NextThomas]_vars

\* the sweep of the call in progress, and its denominators for Python's
\* i = 0 .. n - 1 (the last one divides x[n - 1])
SweepOf ==
    Forward(to_decimal(args[1]), PadLower(args[2]), PadUpper(args[3]),
            to_decimal(args[4]), 0, <<<<Zero>>, <<Zero>>>>)
DenominatorsNonZero ==
    \A i \in 0..(Len(args[1]) - 1) :
        Denominator(to_decimal(args[1]), PadLower(args[2]), SweepOf[1], i) # Zero

\* a_i*x_{i-1} + b_i*x_i + c_i*x_{i+1} = d_i with a_0 = c_{n-1} = 0
RowHolds(x, i) ==
    LET nn == Len(args[1])
        below == IF i > 1 THEN Mul(R(args[2][i - 1]), x[i - 1]) ELSE Zero
        above == IF i < nn THEN Mul(R(args[3][i]), x[i + 1]) ELSE Zero
    IN  Add(Add(below, Mul(R(args[1][i]), x[i])), above) = R(args[4][i])

=============================================================================
